---- MODULE Spec2Model ----
(***************************************************************************)
(* Deliveroo Step 2 - data reconciliation (DR02_data_reconciliation.py).   *)
(*                                                                         *)
(* The model follows one call of match_deliveroo_orders(dr_df, dwh_df):    *)
(* aggregation of the Deliveroo rows, construction of the DWH lookup, the  *)
(* resolver loop over the sorted aggregated orders and the propagation of  *)
(* the match results onto every original row.                              *)
(*                                                                         *)
(* Units: money is in pence (0.10 is 10), timestamps are in hours, a date  *)
(* is the day number of a timestamp (ts \div 24).                          *)
(***************************************************************************)
EXTENDS Integers, Sequences, FiniteSets, TLC

\* ------------------------------------------------------------------ bounds
\* The largest number of rows of the two input tables of one run together
\* (the rows of dr_df plus the rows of dwh_df).
MaxRows == 4
\* The largest number of rows of dr_df when aggregate_order_values is called on
\* its own, and of candidates when _resolve_collision_by_value is.
MaxAggRows == 3
MaxCandidates == 3
\* rows of a frame handed to calculate_variances on its own
MaxVarRows == 2
\* money units to the penny in those frames: amounts finer than a penny
SubPenny == 10

\* ------------------------------------------------------- program constants
\* _resolve_collision_by_value(tolerance=0.10), in pence.
Tolerance == 10
\* _resolve_collision_by_timestamp(buffer_hours=1).
BufferHours == 1
\* pd.NaT / NaN: a missing timestamp.
NaT == -1
\* None: no gp_order_id (no DWH record matched).
NoRef == 0

OrderCat == "Order Value & Commission"
FeeCat == "Additional Fees"
PaymentCat == "Additional Payments"

\* ------------------------------------------------------------ sequences
RECURSIVE SumSeq(_)
SumSeq(s) == IF s = <<>> THEN 0 ELSE Head(s) + SumSeq(Tail(s))

RECURSIVE MapAdj(_)
MapAdj(s) == IF s = <<>> THEN <<>> ELSE <<Head(s).adjustment_gross>> \o MapAdj(Tail(s))

Abs(x) == IF x < 0 THEN -x ELSE x

SeqsUpTo(S, lo, hi) == UNION {[1..n -> S] : n \in lo..hi}

\* --------------------------------------------------------------- inputs
\* load_dr_combined: dr_df row. order_last4 is the last four digits of
\* order_number with leading zeros stripped; delivery_date is the date of
\* dr_delivery_ts.
DateOf(ts) == ts \div 24

DrRow(num, last4, cat, ts, gross, disc, adj) ==
    [order_number |-> num, order_last4 |-> last4, accounting_category |-> cat,
     mfc_name |-> "StoreA", dr_delivery_ts |-> ts, delivery_date |-> DateOf(ts),
     order_value_gross |-> gross, marketing_offer_discount |-> disc,
     adjustment_gross |-> adj]

\* Order rows: two order numbers sharing the last four digits 1234 and one
\* ending 0660; delivered on day 1 (hour 26) or on day 2 (hours 49 and 50).
\* Each is worth 89.00 - 0.50 = 88.50.
DrOrderRows ==
    {DrRow("11234", "1234", OrderCat, 49, 8900, -50, 0),
     DrRow("21234", "1234", OrderCat, 50, 8900, -50, 0),
     DrRow("21234", "1234", OrderCat, 26, 8900, -50, 0),
     DrRow("30660", "660", OrderCat, 49, 8900, -50, 0)}

DrAdjustmentRows ==
    {DrRow("11234", "1234", FeeCat, 49, 0, 0, -1500),
     DrRow("11234", "1234", PaymentCat, 49, 0, 0, 30),
     DrRow("40000", "0", FeeCat, 49, 0, 0, -60)}

DrRows == DrOrderRows \cup DrAdjustmentRows

\* load_dwh_deliveroo: dwh_df row; gp_order_id is the row's own id.
DwhRow(mp, loc, day, value, created, delivered, completed) ==
    [mp_order_id |-> mp, location_name |-> loc, created_at_day |-> day,
     post_promo_sales_inc_vat |-> value, created_at_ts |-> created,
     delivered_at_ts |-> delivered, order_completed |-> completed]

DwhValues == {1200, 8852}
DwhWindows == {<<48, 49>>, <<50, 51>>}

DwhRows ==
    {DwhRow("1234", "StoreA", 2, v, w[1], w[2], 1) :
        v \in DwhValues, w \in DwhWindows}
    \cup {DwhRow("1234", "StoreA", 1, v, 48, 49, 1) : v \in DwhValues}
    \cup {DwhRow("1234", "StoreA", 2, 8852, 48, 49, 0),
          DwhRow("1234", "StoreB", 2, 8852, 48, 49, 1),
          DwhRow("1234", "StoreA", 2, 8852, NaT, NaT, 1),
          DwhRow("", "StoreA", 2, 8852, 48, 49, 1)}

\* dwh_df with its gp_order_id column: every DWH record has its own id.
WithIds(rows) ==
    [k \in DOMAIN rows |->
        [gp_order_id |-> k] @@ rows[k]]

VARIABLES
    dr_df,          \* the Deliveroo Combined rows (input)
    dwh_df,         \* the DWH rows (input)
    pc,             \* position in match_deliveroo_orders
    agg_df,         \* aggregate_order_values(dr_df)
    agg_df_sorted,  \* agg_df.sort_values("delivery_date")
    dwh_lookup,     \* (last4, mfc, date) -> list of candidates
    i,              \* number of aggregated orders resolved so far
    match_results,  \* order_number -> match info
    used_dwh_ids,   \* gp_order_ids already matched
    stats,          \* the summary counters
    iter,           \* the locals of the last iteration of the resolver loop
    result_rows,    \* the annotated rows returned
    final_df,       \* calculate_variances(merged_df) in run_dr_reconciliation
    call,           \* the arguments of a helper called on its own
    ret             \* what that call returned

vars == <<dr_df, dwh_df, pc, agg_df, agg_df_sorted, dwh_lookup, i,
          match_results, used_dwh_ids, stats, iter, result_rows, final_df,
          call, ret>>

run_vars == <<dr_df, dwh_df, pc, agg_df, agg_df_sorted, dwh_lookup, i,
              match_results, used_dwh_ids, stats, iter, result_rows, final_df>>

\* ---------------------------------------------------------- aggregation
OrdersOf(df) == SelectSeq(df, LAMBDA r : r.accounting_category = OrderCat)

\* Mutant of FeesOf: the Additional Payments rows are taken as fees too.
FeesOf_WithPayments(df) ==
    SelectSeq(df, LAMBDA r : r.accounting_category \in {FeeCat, PaymentCat})

FeesOf(df) == SelectSeq(df, LAMBDA r : r.accounting_category = FeeCat)

PaymentsOf(df) == SelectSeq(df, LAMBDA r : r.accounting_category = PaymentCat)

RowsOfOrder(df, num) == SelectSeq(df, LAMBDA r : r.order_number = num)

OrderNumbersOf(df) == {df[k].order_number : k \in DOMAIN df}

\* fees_df.groupby("order_number").agg(sum, count)
FeesAgg(df) ==
    LET fees_df == FeesOf(df) IN
    [num \in OrderNumbersOf(fees_df) |->
        [unavailable_items_adjustment |-> SumSeq(MapAdj(RowsOfOrder(fees_df, num))),
         fees_row_count |-> Len(RowsOfOrder(fees_df, num))]]

\* dr_df.groupby("order_number").size()
RowCounts(df) == [num \in OrderNumbersOf(df) |-> Len(RowsOfOrder(df, num))]

\* agg_df["gross_order_value"] + agg_df["unavailable_items_adjustment"]
NetSalesValue_GrossOnly(gross_order_value, adjustment) == gross_order_value

NetSalesValue(gross_order_value, adjustment) == gross_order_value + adjustment

\* One row of agg_df: the order row with the merged adjustments.
AggRow(o, fees_agg, row_counts) ==
    LET gross_order_value == o.order_value_gross + o.marketing_offer_discount
        adjustment == IF o.order_number \in DOMAIN fees_agg
                      THEN fees_agg[o.order_number].unavailable_items_adjustment
                      ELSE 0
    IN  [order_number |-> o.order_number,
         order_last4 |-> o.order_last4,
         mfc_name |-> o.mfc_name,
         delivery_date |-> o.delivery_date,
         gross_order_value |-> gross_order_value,
         unavailable_items_adjustment |-> adjustment,
         fees_row_count |-> IF o.order_number \in DOMAIN fees_agg
                            THEN fees_agg[o.order_number].fees_row_count
                            ELSE 0,
         order_row_count |-> row_counts[o.order_number],
         net_sales_value |-> NetSalesValue(gross_order_value, adjustment),
         has_refund |-> adjustment # 0]

\* aggregate_order_values(dr_df): the order rows, in their order, each left-merged
\* with the fee totals and the row counts of its order_number.
AggregateOrderValues(df) ==
    LET orders_df == OrdersOf(df) IN
    IF orders_df = <<>>
    THEN <<>>
    ELSE [k \in DOMAIN orders_df |-> AggRow(orders_df[k], FeesAgg(df), RowCounts(df))]

\* ----------------------------------------------------------- DWH lookup
Candidate(idx, row) ==
    [idx |-> idx,
     gp_order_id |-> row.gp_order_id,
     dwh_value |-> row.post_promo_sales_inc_vat,
     created_at_ts |-> row.created_at_ts,
     delivered_at_ts |-> row.delivered_at_ts]

\* None as a candidate.
NoCandidate ==
    [idx |-> 0, gp_order_id |-> NoRef, dwh_value |-> 0,
     created_at_ts |-> NaT, delivered_at_ts |-> NaT]

DwhKey(row) == <<row.mp_order_id, row.location_name, row.created_at_day>>

\* dwh_df[dwh_df["order_completed"] == 1]
IsCompleted_Any(row) == row.order_completed \in {0, 1}

IsCompleted(row) == row.order_completed = 1

\* A row of dwh_completed enters the lookup when mp_id and loc are not empty.
InLookup(row) ==
    /\ IsCompleted(row)
    /\ row.mp_order_id # ""
    /\ row.location_name # ""
    /\ row.mp_order_id # "nan"

Indices(s) == [k \in DOMAIN s |-> k]

\* The candidates appended under one key, in the order of dwh_completed.
CandidatesOfKey(df, key) ==
    LET sel == SelectSeq(Indices(df), LAMBDA k : InLookup(df[k]) /\ DwhKey(df[k]) = key)
    IN  [j \in DOMAIN sel |-> Candidate(sel[j], df[sel[j]])]

BuildDwhLookup(df) ==
    LET keys == {DwhKey(df[k]) : k \in {x \in DOMAIN df : InLookup(df[x])}}
    IN  [key \in keys |-> CandidatesOfKey(df, key)]

\* dwh_lookup.get(key, [])
LookupGet(lookup, key) == IF key \in DOMAIN lookup THEN lookup[key] ELSE <<>>

\* ----------------------------------------------------------------- sort
\* agg_df.sort_values("delivery_date"): ascending by delivery_date; rows with
\* the same delivery_date keep the order of agg_df.
InsertByDate(sorted, row) ==
    SelectSeq(sorted, LAMBDA x : x.delivery_date <= row.delivery_date)
    \o <<row>>
    \o SelectSeq(sorted, LAMBDA x : x.delivery_date > row.delivery_date)

RECURSIVE SortValues(_)
SortValues(df) ==
    IF df = <<>>
    THEN <<>>
    ELSE InsertByDate(SortValues(SubSeq(df, 1, Len(df) - 1)), df[Len(df)])

\* orders_df.set_index("order_number")["dr_delivery_ts"].to_dict(): the
\* timestamp of the last order row of the order_number.
OrderTimestamp(df, num) ==
    LET rows == RowsOfOrder(OrdersOf(df), num) IN rows[Len(rows)].dr_delivery_ts

\* -------------------------------------------------- collision resolution
\* Mutant of InWindow: the buffer after delivered_at_ts is left out.
InWindow_NoBuffer(dr_ts, cand) ==
    /\ cand.created_at_ts # NaT
    /\ cand.delivered_at_ts # NaT
    /\ cand.created_at_ts <= dr_ts
    /\ dr_ts <= cand.delivered_at_ts

\* created_ts <= dr_delivery_ts <= delivered_ts + buffer
InWindow(dr_ts, cand) ==
    /\ cand.created_at_ts # NaT
    /\ cand.delivered_at_ts # NaT
    /\ cand.created_at_ts <= dr_ts
    /\ dr_ts <= cand.delivered_at_ts + BufferHours

MatchingCandidates(dr_ts, candidates) ==
    SelectSeq(candidates, LAMBDA c : InWindow(dr_ts, c))

\* _resolve_collision_by_timestamp
ResolveCollisionByTimestamp(dr_ts, candidates) ==
    IF dr_ts = NaT
    THEN [cand |-> NoCandidate, result |-> "NO_DR_TIMESTAMP"]
    ELSE LET matching == MatchingCandidates(dr_ts, candidates) IN
         IF Len(matching) = 1
         THEN [cand |-> matching[1], result |-> "MATCHED_BY_TIMESTAMP"]
         ELSE IF Len(matching) > 1
         THEN [cand |-> NoCandidate, result |-> "MULTIPLE_TIMESTAMP_MATCHES"]
         ELSE [cand |-> NoCandidate, result |-> "NO_TIMESTAMP_MATCH"]

\* Mutant of Closer: an equally close candidate replaces the best one so far.
Closer_OrEqual(diff, best, best_diff) == best = NoCandidate \/ diff <= best_diff

\* if diff < best_diff: the candidate replaces the best one so far (best_diff
\* starts at infinity: the first candidate always does).
Closer(diff, best, best_diff) == best = NoCandidate \/ diff < best_diff

\* The for loop of _resolve_collision_by_value, from candidate k on.
RECURSIVE BestMatch(_, _, _, _, _)
BestMatch(dr_value, candidates, k, best, best_diff) ==
    IF k > Len(candidates)
    THEN [cand |-> best, diff |-> best_diff]
    ELSE LET diff == Abs(candidates[k].dwh_value - dr_value) IN
         IF Closer(diff, best, best_diff)
         THEN BestMatch(dr_value, candidates, k + 1, candidates[k], diff)
         ELSE BestMatch(dr_value, candidates, k + 1, best, best_diff)

\* Mutant of GoodMatch: a difference equal to the tolerance is accepted.
GoodMatch_Inclusive(best_diff, dwh_value) ==
    \/ best_diff <= Tolerance
    \/ (dwh_value > 0 /\ 100 * best_diff < dwh_value)

\* best_diff < tolerance or (dwh_value > 0 and best_diff / dwh_value < 0.01)
GoodMatch(best_diff, dwh_value) ==
    \/ best_diff < Tolerance
    \/ (dwh_value > 0 /\ 100 * best_diff < dwh_value)

\* _resolve_collision_by_value
ResolveCollisionByValue(dr_value, candidates) ==
    LET best == BestMatch(dr_value, candidates, 1, NoCandidate, 0) IN
    IF best.cand # NoCandidate /\ GoodMatch(best.diff, best.cand.dwh_value)
    THEN [cand |-> best.cand, result |-> "MATCHED_BY_VALUE"]
    ELSE [cand |-> NoCandidate, result |-> "NO_VALUE_MATCH"]


\* -------------------------------------------------------- resolver loop
\* Mutant of Available: the used DWH records are not filtered out.
Available_NoFilter(candidates, used) == candidates

\* [c for c in candidates if c["gp_order_id"] not in used_dwh_ids]
Available(candidates, used) ==
    SelectSeq(candidates, LAMBDA c : c.gp_order_id \notin used)

\* Mutant of OrderKey: the key is built without the order's own location.
OrderKey_OtherLocation(agg_row) == <<agg_row.order_last4, "StoreB", agg_row.delivery_date>>

\* key = (dr_last4, dr_mfc, dr_date)
OrderKey(agg_row) == <<agg_row.order_last4, agg_row.mfc_name, agg_row.delivery_date>>

\* Mutant of PrevKey: the following day instead of the previous one.
PrevKey_NextDay(agg_row) ==
    <<agg_row.order_last4, agg_row.mfc_name, agg_row.delivery_date + 1>>

\* prev_date = dr_date - timedelta(days=1)
PrevKey(agg_row) == <<agg_row.order_last4, agg_row.mfc_name, agg_row.delivery_date - 1>>

\* confidence_map.get(match_status, "Unknown")
Confidence_ValueAsTimestamp(match_status) ==
    CASE match_status = "MATCHED" -> "High"
      [] match_status = "MATCHED_CROSS_MIDNIGHT" -> "High (Cross-Midnight)"
      [] match_status = "MATCHED_BY_TIMESTAMP" -> "Medium (Timestamp)"
      [] match_status = "MATCHED_BY_VALUE" -> "Medium (Timestamp)"
      [] match_status = "NO_DWH_RECORD" -> "N/A"
      [] match_status = "COLLISION" -> "Ambiguous"
      [] OTHER -> "Unknown"

Confidence(match_status) ==
    CASE match_status = "MATCHED" -> "High"
      [] match_status = "MATCHED_CROSS_MIDNIGHT" -> "High (Cross-Midnight)"
      [] match_status = "MATCHED_BY_TIMESTAMP" -> "Medium (Timestamp)"
      [] match_status = "MATCHED_BY_VALUE" -> "Low (Value)"
      [] match_status = "NO_DWH_RECORD" -> "N/A"
      [] match_status = "COLLISION" -> "Ambiguous"
      [] OTHER -> "Unknown"

\* Mutant of SingleStatus: the cross_midnight flag read the wrong way round.
SingleStatus_Inverted(cross_midnight) ==
    IF cross_midnight THEN "MATCHED" ELSE "MATCHED_CROSS_MIDNIGHT"

\* Single candidate: MATCHED_CROSS_MIDNIGHT if it came from the previous day.
SingleStatus(cross_midnight) ==
    IF cross_midnight THEN "MATCHED_CROSS_MIDNIGHT" ELSE "MATCHED"

\* Mutant of Resolve: the first available candidate is taken as a single
\* candidate however many there are.
Resolve_FirstOfMany(available, cross_midnight, dr_ts, net_value) ==
    IF available = <<>>
    THEN [cand |-> NoCandidate, status |-> "NO_DWH_RECORD",
          ts_result |-> "", val_result |-> ""]
    ELSE [cand |-> available[1],
          status |-> SingleStatus(cross_midnight),
          ts_result |-> "", val_result |-> ""]

\* The branch on the available candidates: the matched candidate (or None) and
\* the match status, with the stages that ran.
Resolve(available, cross_midnight, dr_ts, net_value) ==
    IF available = <<>>
    THEN [cand |-> NoCandidate, status |-> "NO_DWH_RECORD",
          ts_result |-> "", val_result |-> ""]
    ELSE IF Len(available) = 1
    THEN [cand |-> available[1],
          status |-> SingleStatus(cross_midnight),
          ts_result |-> "", val_result |-> ""]
    ELSE LET by_ts == ResolveCollisionByTimestamp(dr_ts, available) IN
         IF by_ts.cand # NoCandidate
         THEN [cand |-> by_ts.cand, status |-> "MATCHED_BY_TIMESTAMP",
               ts_result |-> by_ts.result, val_result |-> ""]
         ELSE LET by_value == ResolveCollisionByValue(net_value, available) IN
              IF by_value.cand # NoCandidate
              THEN [cand |-> by_value.cand, status |-> "MATCHED_BY_VALUE",
                    ts_result |-> by_ts.result, val_result |-> by_value.result]
              ELSE [cand |-> NoCandidate, status |-> "COLLISION",
                    ts_result |-> by_ts.result, val_result |-> by_value.result]

\* The locals of one iteration of the loop over agg_df_sorted.
Iteration(agg_row, dr_ts, lookup, used) ==
    LET same_date == Available(LookupGet(lookup, OrderKey(agg_row)), used)
        prev_consulted == same_date = <<>>
        prev_date == IF prev_consulted
                     THEN Available(LookupGet(lookup, PrevKey(agg_row)), used)
                     ELSE <<>>
        available == IF prev_consulted THEN prev_date ELSE same_date
        cross_midnight == prev_consulted /\ prev_date # <<>>
        r == Resolve(available, cross_midnight, dr_ts, agg_row.net_sales_value)
    IN  [order_num |-> agg_row.order_number,
         key |-> OrderKey(agg_row),
         prev_key |-> PrevKey(agg_row),
         dr_ts |-> dr_ts,
         net_value |-> agg_row.net_sales_value,
         has_refund |-> agg_row.has_refund,
         same_date |-> same_date,
         prev_consulted |-> prev_consulted,
         prev_date |-> prev_date,
         available |-> available,
         cross_midnight |-> cross_midnight,
         ts_result |-> r.ts_result,
         val_result |-> r.val_result,
         matched_candidate |-> r.cand,
         match_status |-> r.status,
         match_confidence |-> Confidence(r.status),
         used_before |-> used]

\* match_results[order_num] = {...}
MatchInfo(it, agg_row) ==
    [matched |-> it.matched_candidate # NoCandidate,
     dwh_idx |-> it.matched_candidate.idx,
     gp_order_id |-> it.matched_candidate.gp_order_id,
     order_category |-> IF it.matched_candidate = NoCandidate THEN "Not Matched"
                        ELSE IF it.has_refund THEN "Matched (Grouped)" ELSE "Matched",
     match_status |-> it.match_status,
     match_confidence |-> it.match_confidence,
     cross_midnight |-> it.cross_midnight,
     net_sales_value |-> it.net_value,
     gross_order_value |-> agg_row.gross_order_value,
     unavailable_items_adjustment |-> agg_row.unavailable_items_adjustment]

\* Mutant of MarkUsed: the id is added whether or not a candidate was matched.
MarkUsed_Unconditional(used, cand) == used \cup {cand.gp_order_id}

\* used_dwh_ids.add(matched_candidate["gp_order_id"])
MarkUsed(used, cand) ==
    IF cand # NoCandidate THEN used \cup {cand.gp_order_id} ELSE used

StatOf(match_status) ==
    CASE match_status = "MATCHED" -> "matched_direct"
      [] match_status = "MATCHED_CROSS_MIDNIGHT" -> "matched_cross_midnight"
      [] match_status = "MATCHED_BY_TIMESTAMP" -> "matched_by_timestamp"
      [] match_status = "MATCHED_BY_VALUE" -> "matched_by_value"
      [] match_status = "NO_DWH_RECORD" -> "no_dwh_record"
      [] match_status = "COLLISION" -> "collision"

StatNames ==
    {"matched_direct", "matched_cross_midnight", "matched_by_timestamp",
     "matched_by_value", "no_dwh_record", "collision", "matched_grouped"}

\* Mutant of CountStats: a cross-midnight match is counted as a direct match
\* as well.
CountStats_CrossAsDirect(st, it) ==
    [name \in StatNames |->
        IF name = StatOf(it.match_status)
            \/ (name = "matched_direct" /\ it.match_status = "MATCHED_CROSS_MIDNIGHT")
            \/ (name = "matched_grouped" /\ it.matched_candidate # NoCandidate /\ it.has_refund)
        THEN st[name] + 1
        ELSE st[name]]

\* stats[...] += 1
CountStats(st, it) ==
    [name \in StatNames |->
        IF name = StatOf(it.match_status)
            \/ (name = "matched_grouped" /\ it.matched_candidate # NoCandidate /\ it.has_refund)
        THEN st[name] + 1
        ELSE st[name]]

Put(f, key, value) == [x \in DOMAIN f \cup {key} |-> IF x = key THEN value ELSE f[x]]

\* ---------------------------------------------------------- propagation
\* variance_pct > 20, with variance_pct = |net - dwh| / net * 100 where net > 0
HighVariance(net_val, dwh_val) ==
    net_val > 0 /\ 100 * Abs(net_val - dwh_val) > 20 * net_val

\* Step 5, order_num not in match_results: the columns of a standalone
\* adjustment (no dwh_ column is set on the row).
StandaloneFields_WithAdjustment(dr_row) ==
    [net_sales_value |-> dr_row.adjustment_gross,
     gross_order_value |-> 0,
     unavailable_items_adjustment |-> dr_row.adjustment_gross,
     dwh_gp_order_id |-> NoRef,
     dwh_post_promo_sales_inc_vat |-> 0,
     order_category |-> "Standalone Adjustment",
     match_status |-> "N/A",
     match_confidence |-> "N/A"]

StandaloneFields(dr_row) ==
    [net_sales_value |-> 0,
     gross_order_value |-> 0,
     unavailable_items_adjustment |-> 0,
     dwh_gp_order_id |-> NoRef,
     dwh_post_promo_sales_inc_vat |-> 0,
     order_category |-> "Standalone Adjustment",
     match_status |-> "N/A",
     match_confidence |-> "N/A"]

\* Step 5, order_category of an Additional Fees / Payments row of an order
LinkedCategory_Always(matched) == "Linked to Order"

LinkedCategory(matched) ==
    IF matched THEN "Linked to Order" ELSE "Linked to Unmatched"

\* Step 5 for one row of dr_df, then Step 6 for it.
ResultRow(dr_row, results, dwh) ==
    LET num == dr_row.order_number
        is_order == dr_row.accounting_category = OrderCat
    IN
    IF num \in DOMAIN results
    THEN LET info == results[num]
             dwh_value == IF info.matched
                          THEN dwh[info.dwh_idx].post_promo_sales_inc_vat
                          ELSE 0
             review == /\ info.matched
                       /\ is_order
                       /\ HighVariance(info.net_sales_value, dwh_value)
         IN  dr_row @@
             [net_sales_value |-> info.net_sales_value,
              gross_order_value |-> info.gross_order_value,
              unavailable_items_adjustment |-> info.unavailable_items_adjustment,
              dwh_gp_order_id |-> info.gp_order_id,
              dwh_post_promo_sales_inc_vat |-> dwh_value,
              order_category |->
                  IF ~is_order THEN LinkedCategory(info.matched)
                  ELSE IF info.matched THEN info.order_category
                  ELSE "Not Matched",
              match_status |->
                  IF info.matched /\ ~is_order THEN "LINKED" ELSE info.match_status,
              match_confidence |->
                  IF info.matched /\ ~is_order THEN "Inherited"
                  ELSE IF review THEN info.match_confidence \o " - Review"
                  ELSE info.match_confidence]
    ELSE dr_row @@ StandaloneFields(dr_row)

\* ---------------------------------------------------- calculate_variances
\* Money is a whole number of units, `penny` units to the penny: 1 for the rows
\* of a run (whole pence), SubPenny where values finer than a penny are given.

\* Series.round(2): to the nearest penny, a half to the even penny.
Round2(x, penny) ==
    LET q == x \div penny
        r == x % penny
    IN  IF 2 * r < penny THEN q * penny
        ELSE IF 2 * r > penny THEN (q + 1) * penny
        ELSE IF q % 2 = 0 THEN q * penny
        ELSE (q + 1) * penny

\* (net_val.round(2) - dwh_val.round(2)).round(2)
AmountVariance(net_val, dwh_val, penny) ==
    Round2(Round2(net_val, penny) - Round2(dwh_val, penny), penny)

MatchedCategories == {"Matched", "Matched (Grouped)"}

\* exact_mask: abs_variance < 0.02
ExactMask(abs_variance, penny) == abs_variance < 2 * penny

\* rounding_mask: 0.02 <= abs_variance < 0.10
RoundingMask_FromThree(abs_variance, penny) ==
    abs_variance >= 3 * penny /\ abs_variance < 10 * penny

RoundingMask(abs_variance, penny) ==
    abs_variance >= 2 * penny /\ abs_variance < 10 * penny

\* minor_mask: 0.10 <= abs_variance < 1.00
MinorMask(abs_variance, penny) ==
    abs_variance >= 10 * penny /\ abs_variance < 100 * penny

\* unexplained_mask: abs_variance >= 1.00
UnexplainedMask_Capped(abs_variance, penny) ==
    abs_variance >= 100 * penny /\ abs_variance < 200 * penny

UnexplainedMask(abs_variance, penny) == abs_variance >= 100 * penny

\* The four .loc assignments in their order: a later mask overwrites.
VarianceExplanation(abs_variance, penny) ==
    IF UnexplainedMask(abs_variance, penny) THEN "Unexplained Variance"
    ELSE IF MinorMask(abs_variance, penny) THEN "Minor Variance"
    ELSE IF RoundingMask(abs_variance, penny) THEN "Rounding"
    ELSE IF ExactMask(abs_variance, penny) THEN "Exact Match"
    ELSE "N/A"

MatchedAmount(abs_variance, penny) ==
    IF UnexplainedMask(abs_variance, penny) THEN "Value Variance"
    ELSE IF MinorMask(abs_variance, penny) THEN "Minor Variance"
    ELSE IF RoundingMask(abs_variance, penny) THEN "Exact Match"
    ELSE IF ExactMask(abs_variance, penny) THEN "Exact Match"
    ELSE "N/A"

\* "col" in df.columns, for a frame built from a list of row dicts
HasColumn(df, col) == \E k \in DOMAIN df : col \in DOMAIN df[k]

\* The dwh_ columns exist when row_dict.update(dwh_data) ran for some row.
HasDwhColumns(df) ==
    \E k \in DOMAIN df :
        /\ "dwh_gp_order_id" \in DOMAIN df[k]
        /\ df[k].dwh_gp_order_id # NoRef

\* pd.to_numeric(df[col], errors="coerce").fillna(0) at one row
Numeric(row, col) == IF col \in DOMAIN row THEN row[col] ELSE 0

\* linked_mask rows: matched_amount and variance_explanation
LinkedLabels_FromParent(abs_variance, penny) ==
    [matched_amount |-> MatchedAmount(abs_variance, penny),
     variance_explanation |-> VarianceExplanation(abs_variance, penny)]

LinkedLabels(abs_variance, penny) ==
    [matched_amount |-> "Linked", variance_explanation |-> "See Parent Order"]

\* non_matched_mask: amount_variance is set to 0 on these rows
NonMatched(order_category) ==
    order_category \notin MatchedCategories \cup {"Linked to Order"}

\* df["order_category"] on a frame whose rows have no such column: the
\* KeyError that run_dr_reconciliation reports as a failed reconciliation.
RaisesKeyError(df) == df # <<>> /\ ~HasColumn(df, "order_category")

\* calculate_variances at one row of df
VarianceRow(row, with_values, penny) ==
    LET cat == row.order_category
        variance == AmountVariance(Numeric(row, "net_sales_value"),
                                   Numeric(row, "dwh_post_promo_sales_inc_vat"), penny)
        abs_variance == Abs(variance)
        labels ==
            IF ~with_values
            THEN [matched_amount |-> "No DWH Value", variance_explanation |-> "N/A"]
            ELSE IF cat = "Linked to Order" THEN LinkedLabels(abs_variance, penny)
            ELSE IF cat \in MatchedCategories
            THEN [matched_amount |-> MatchedAmount(abs_variance, penny),
                  variance_explanation |-> VarianceExplanation(abs_variance, penny)]
            ELSE [matched_amount |-> "N/A", variance_explanation |-> "N/A"]
    IN  [amount_variance |-> IF with_values /\ ~NonMatched(cat) THEN variance ELSE 0,
         matched_amount |-> labels.matched_amount,
         variance_explanation |-> labels.variance_explanation] @@ row

\* calculate_variances(df)
CalculateVariances(df, penny) ==
    LET with_values == HasDwhColumns(df) /\ HasColumn(df, "net_sales_value")
    IN  [k \in DOMAIN df |-> VarianceRow(df[k], with_values, penny)]

\* -------------------------------------------------------- specification
NoStats == [name \in StatNames |-> 0]

NoIteration == [order_num |-> ""]

NoCall == [fn |-> ""]

DrInputs(n) == SeqsUpTo(DrRows, 0, n)

DwhInputs(n) == {WithIds(rows) : rows \in SeqsUpTo(DwhRows, 0, n)}

Init ==
    /\ dr_df \in DrInputs(MaxRows)
    /\ dwh_df \in DwhInputs(MaxRows - Len(dr_df))
    /\ pc = "start"
    /\ agg_df = <<>>
    /\ agg_df_sorted = <<>>
    /\ dwh_lookup = <<>>
    /\ i = 0
    /\ match_results = <<>>
    /\ used_dwh_ids = {}
    /\ stats = NoStats
    /\ iter = NoIteration
    /\ result_rows = <<>>
    /\ final_df = <<>>
    /\ call = NoCall
    /\ ret = NoCall

\* The columns set on dr_df when orders_df is empty.
NoOrdersFields_NoCategory == [match_status |-> "N/A"]

NoOrdersFields == [order_category |-> "No Orders", match_status |-> "N/A"]

\* if orders_df.empty: dr_df gets the two columns and is returned.
NoOrders ==
    /\ pc = "start"
    /\ OrdersOf(dr_df) = <<>>
    /\ dr_df' = [k \in DOMAIN dr_df |-> dr_df[k] @@ NoOrdersFields]
    /\ result_rows' = dr_df'
    /\ pc' = "done"
    /\ UNCHANGED <<dwh_df, agg_df, agg_df_sorted, dwh_lookup, i, match_results,
                   used_dwh_ids, stats, iter, final_df, call, ret>>

\* Step 2: agg_df = aggregate_order_values(dr_df)
Aggregate ==
    /\ pc = "start"
    /\ OrdersOf(dr_df) # <<>>
    /\ agg_df' = AggregateOrderValues(dr_df)
    /\ pc' = "lookup"
    /\ UNCHANGED <<dr_df, dwh_df, agg_df_sorted, dwh_lookup, i, match_results,
                   used_dwh_ids, stats, iter, result_rows, final_df, call, ret>>

\* Step 3 and the head of Step 4: the lookup, the sorted orders, the empty results.
BuildLookup ==
    /\ pc = "lookup"
    /\ dwh_lookup' = BuildDwhLookup(dwh_df)
    /\ agg_df_sorted' = SortValues(agg_df)
    /\ match_results' = <<>>
    /\ used_dwh_ids' = {}
    /\ stats' = NoStats
    /\ i' = 0
    /\ pc' = "resolve"
    /\ UNCHANGED <<dr_df, dwh_df, agg_df, iter, result_rows, final_df, call, ret>>

\* One iteration of: for _, agg_row in agg_df_sorted.iterrows()
ResolveOrder ==
    /\ pc = "resolve"
    /\ i < Len(agg_df_sorted)
    /\ LET agg_row == agg_df_sorted[i + 1]
           it == Iteration(agg_row, OrderTimestamp(dr_df, agg_row.order_number),
                           dwh_lookup, used_dwh_ids)
       IN  /\ iter' = it
           /\ used_dwh_ids' = MarkUsed(used_dwh_ids, it.matched_candidate)
           /\ match_results' = Put(match_results, it.order_num, MatchInfo(it, agg_row))
           /\ stats' = CountStats(stats, it)
    /\ i' = i + 1
    /\ UNCHANGED <<dr_df, dwh_df, pc, agg_df, agg_df_sorted, dwh_lookup, result_rows,
                   final_df, call, ret>>

\* Steps 5 and 6: the results on every row of dr_df; the function returns.
Propagate_MatchedOnly ==
    /\ pc = "resolve"
    /\ i = Len(agg_df_sorted)
    /\ result_rows' = LET kept == SelectSeq(dr_df, LAMBDA r : r.order_number \in DOMAIN match_results)
                      IN  [k \in DOMAIN kept |-> ResultRow(kept[k], match_results, dwh_df)]
    /\ pc' = "done"
    /\ UNCHANGED <<dr_df, dwh_df, agg_df, agg_df_sorted, dwh_lookup, i, match_results,
                   used_dwh_ids, stats, iter, final_df, call, ret>>

Propagate ==
    /\ pc = "resolve"
    /\ i = Len(agg_df_sorted)
    /\ result_rows' = [k \in DOMAIN dr_df |-> ResultRow(dr_df[k], match_results, dwh_df)]
    /\ pc' = "done"
    /\ UNCHANGED <<dr_df, dwh_df, agg_df, agg_df_sorted, dwh_lookup, i, match_results,
                   used_dwh_ids, stats, iter, final_df, call, ret>>

\* run_dr_reconciliation: final_df = calculate_variances(merged_df), on the
\* frame match_deliveroo_orders returned on either path.
Variances ==
    /\ pc = "done"
    /\ IF RaisesKeyError(result_rows)
       THEN final_df' = final_df /\ pc' = "raised"
       ELSE final_df' = CalculateVariances(result_rows, 1) /\ pc' = "final"
    /\ UNCHANGED <<dr_df, dwh_df, agg_df, agg_df_sorted, dwh_lookup, i, match_results,
                   used_dwh_ids, stats, iter, result_rows, call, ret>>

Next ==
    \/ NoOrders
    \/ Aggregate
    \/ BuildLookup
    \/ ResolveOrder
    \/ Propagate
    \/ Variances

Spec == Init /\ [][Next]_vars

\* ----------------------------------------- the helpers called on their own
\* The run of match_deliveroo_orders is not started in these specifications.
Idle ==
    /\ dr_df = <<>>
    /\ dwh_df = <<>>
    /\ pc = "idle"
    /\ agg_df = <<>>
    /\ agg_df_sorted = <<>>
    /\ dwh_lookup = <<>>
    /\ i = 0
    /\ match_results = <<>>
    /\ used_dwh_ids = {}
    /\ stats = NoStats
    /\ iter = NoIteration
    /\ result_rows = <<>>
    /\ final_df = <<>>

\* aggregate_order_values(dr_df) on rows with several order values, marketing
\* discounts, fee and payment adjustments.
AggOrderRows ==
    {DrRow(num, "1234", OrderCat, 49, gross, disc, 0) :
        num \in {"11234", "21234"}, gross \in {1000, 2500}, disc \in {0, -50}}

AggFeeRows ==
    {DrRow(num, "1234", FeeCat, 49, 0, 0, adj) :
        num \in {"11234", "21234", "40000"}, adj \in {-60, -25}}

AggPaymentRows ==
    {DrRow("11234", "1234", PaymentCat, 49, 0, 0, adj) : adj \in {30, 45}}

AggRows == AggOrderRows \cup AggFeeRows \cup AggPaymentRows

InitAgg ==
    /\ Idle
    /\ call \in {[fn |-> "aggregate_order_values", dr_df |-> df] :
                    df \in SeqsUpTo(AggRows, 0, MaxAggRows)}
    /\ ret = NoCall

CallAggregate ==
    /\ call.fn = "aggregate_order_values"
    /\ ret = NoCall
    /\ ret' = [fn |-> call.fn, agg_df |-> AggregateOrderValues(call.dr_df)]
    /\ UNCHANGED <<run_vars, call>>

SpecAgg == InitAgg /\ [][CallAggregate]_vars

\* _resolve_collision_by_value(dr_value, candidates) on two or more candidates.
ValueCandidate(k, value) ==
    [idx |-> k, gp_order_id |-> k, dwh_value |-> value,
     created_at_ts |-> NaT, delivered_at_ts |-> NaT]

DrValues == {990, 1000, 8850}

CandidateValues == {0, 990, 1000, 1010, 1200, 8852}

ValueCandidates ==
    {[k \in DOMAIN values |-> ValueCandidate(k, values[k])] :
        values \in SeqsUpTo(CandidateValues, 2, MaxCandidates)}

InitValue ==
    /\ Idle
    /\ call \in {[fn |-> "_resolve_collision_by_value", dr_value |-> v, candidates |-> c] :
                    v \in DrValues, c \in ValueCandidates}
    /\ ret = NoCall

CallResolveByValue ==
    /\ call.fn = "_resolve_collision_by_value"
    /\ ret = NoCall
    /\ ret' = [fn |-> call.fn] @@ ResolveCollisionByValue(call.dr_value, call.candidates)
    /\ UNCHANGED <<run_vars, call>>

SpecValue == InitValue /\ [][CallResolveByValue]_vars

\* calculate_variances(df) on rows as match_deliveroo_orders returns them, with
\* amounts of SubPenny units to the penny: 100.00, 100.01 and 100.004 against
\* DWH values a number of pence (and a fraction of a penny) above or below.
VarRow(category, net, dwh, id) ==
    [order_category |-> category, net_sales_value |-> net,
     dwh_post_promo_sales_inc_vat |-> dwh, dwh_gp_order_id |-> id]

VarNets == {10000 * SubPenny, 10001 * SubPenny, 10000 * SubPenny + 4}

VarPence == {-100, 0, 2, 3, 9, 10, 99, 100, 250}

VarFractions == {0, 5, 6}

VarRows ==
    {VarRow("Matched", net, (10000 + d) * SubPenny + f, 1) :
        net \in VarNets, d \in VarPence, f \in VarFractions}
    \cup {VarRow("Matched (Grouped)", 10000 * SubPenny, (10000 + d) * SubPenny, 1) :
             d \in {0, 3, 100}}
    \cup {VarRow("Linked to Order", 10000 * SubPenny, (10000 + d) * SubPenny, 1) :
             d \in {0, 3}}
    \cup {VarRow("Not Matched", 10000 * SubPenny, 0, NoRef),
          VarRow("Standalone Adjustment", 0, 0, NoRef)}

InitVariance ==
    /\ Idle
    /\ call \in {[fn |-> "calculate_variances", df |-> df] :
                    df \in SeqsUpTo(VarRows, 1, MaxVarRows)}
    /\ ret = NoCall

CallCalculateVariances ==
    /\ call.fn = "calculate_variances"
    /\ ret = NoCall
    /\ ret' = [fn |-> call.fn, df |-> CalculateVariances(call.df, SubPenny)]
    /\ UNCHANGED <<run_vars, call>>

SpecVariance == InitVariance /\ [][CallCalculateVariances]_vars

\* ------------------------------------------------- run_dr_reconciliation
\* The steps inside the try block, in the order of the code.
RunSteps ==
    <<"load_dwh_deliveroo", "load_dr_combined", "match_deliveroo_orders",
      "calculate_variances", "summary", "save_dataframe">>

\* What the DWH folder and the output folder hold: no CSV file, CSV files of
\* which none can be read, or readable files; the Deliveroo Combined file under
\* its expected name, under another end date, or not at all.
DwhFiles == {"none", "unreadable", "ok"}

DrFiles == {"expected", "other_end_date", "none"}

\* An exception other than the loaders' FileNotFoundError raised inside a step.
StepErrors == {"KeyError", "PermissionError"}

NoFault == [step |-> "", exc |-> ""]

Faults ==
    {NoFault} \cup {[step |-> RunSteps[n], exc |-> e] : n \in DOMAIN RunSteps, e \in StepErrors}

InitRun ==
    /\ Idle
    /\ call \in {[fn |-> "run_dr_reconciliation", dwh_files |-> d, dr_file |-> f, fault |-> x] :
                    d \in DwhFiles, f \in DrFiles, x \in Faults}
    /\ ret = NoCall

Running(step) ==
    /\ call.fn = "run_dr_reconciliation"
    /\ ret # NoCall
    /\ ret.step = step

Raise(exc) == [ret EXCEPT !.step = "except", !.exc = exc]

Complete(next) == [ret EXCEPT !.done = Append(@, ret.step), !.step = next]

\* a step that raises the fault of the call when it is the faulty one
StepOf(next) ==
    IF call.fault.step = ret.step THEN Raise(call.fault.exc) ELSE Complete(next)

\* Mutant of Handler: only the first except clause is there.
Handler_FileNotFoundOnly(exc) ==
    IF exc = "FileNotFoundError" THEN "except FileNotFoundError" ELSE ""

\* The except clause that takes an exception raised inside the try block.
Handler(exc) ==
    IF exc = "FileNotFoundError" THEN "except FileNotFoundError"
    ELSE IF exc \in StepErrors THEN "except Exception"
    ELSE ""

\* The header is logged and the accrual period calculated; the try is entered.
EnterTry ==
    /\ call.fn = "run_dr_reconciliation"
    /\ ret = NoCall
    /\ ret' = [fn |-> call.fn, step |-> RunSteps[1], done |-> <<>>, exc |-> "",
               output_written |-> FALSE, value |-> ""]
    /\ UNCHANGED <<run_vars, call>>

\* dwh_df = load_dwh_deliveroo(...): FileNotFoundError without a CSV file or
\* without a readable one.
LoadDwhDeliveroo ==
    /\ Running("load_dwh_deliveroo")
    /\ ret' = IF call.fault.step # ret.step /\ call.dwh_files # "ok"
              THEN Raise("FileNotFoundError")
              ELSE StepOf("load_dr_combined")
    /\ UNCHANGED <<run_vars, call>>

\* dr_df = load_dr_combined(...): a file of the same start date stands in for
\* the expected one; FileNotFoundError when there is none.
LoadDrCombined ==
    /\ Running("load_dr_combined")
    /\ ret' = IF call.fault.step # ret.step /\ call.dr_file = "none"
              THEN Raise("FileNotFoundError")
              ELSE StepOf("match_deliveroo_orders")
    /\ UNCHANGED <<run_vars, call>>

\* merged_df = match_deliveroo_orders(dr_df, dwh_df, log_callback)
MatchOrders ==
    /\ Running("match_deliveroo_orders")
    /\ ret' = StepOf("calculate_variances")
    /\ UNCHANGED <<run_vars, call>>

\* final_df = calculate_variances(merged_df)
RunVariances ==
    /\ Running("calculate_variances")
    /\ ret' = StepOf("summary")
    /\ UNCHANGED <<run_vars, call>>

\* the summary statistics read from final_df and logged
Summary ==
    /\ Running("summary")
    /\ ret' = StepOf("save_dataframe")
    /\ UNCHANGED <<run_vars, call>>

\* save_dataframe(final_df, output_path, backup_existing=False): the file is
\* written, or the call raises and leaves no file.
SaveOutput ==
    /\ Running("save_dataframe")
    /\ ret' = IF call.fault.step = ret.step
              THEN Raise(call.fault.exc)
              ELSE [Complete("return") EXCEPT !.output_written = TRUE]
    /\ UNCHANGED <<run_vars, call>>

\* return output_path
ReturnPath ==
    /\ Running("return")
    /\ ret' = [ret EXCEPT !.step = "returned", !.value = "output_path"]
    /\ UNCHANGED <<run_vars, call>>

\* except FileNotFoundError / except Exception: log and return None; an
\* exception no clause takes leaves the function.
Except ==
    /\ Running("except")
    /\ ret' = [ret EXCEPT !.step = "returned",
                          !.value = IF Handler(ret.exc) = "" THEN "raised" ELSE "None"]
    /\ UNCHANGED <<run_vars, call>>

NextRun ==
    \/ EnterTry
    \/ LoadDwhDeliveroo
    \/ LoadDrCombined
    \/ MatchOrders
    \/ RunVariances
    \/ Summary
    \/ SaveOutput
    \/ ReturnPath
    \/ Except

SpecRun == InitRun /\ [][NextRun]_vars

\* ------------------------------------------- Deliveroo Step 1 (the GUI)
\* MainPageController._on_dr_step1_clicked with show_unmapped_mfc_dialog and
\* UnmappedMfcDialog. The CSV folder and the mapping file are outside the
\* handler: get_unmapped_mfcs may return any set of names, load_mfc_mapping any
\* mapping, and save_mfc_mapping may succeed or fail.
MfcNames == {"Deliveroo Camden", "Deliveroo Soho"}

GopuffNames == {"GoPuff Camden", "GoPuff Soho"}

\* the mappings load_mfc_mapping can return
MfcMappings ==
    UNION {[names -> GopuffNames] : names \in SUBSET MfcNames}

\* pending_mappings = {name: "" for name in unmapped}
PendingOf(unmapped) == [name \in unmapped |-> ""]

\* remaining = sum(1 for v in pending_mappings.values() if not v)
Remaining(pending) == Cardinality({name \in DOMAIN pending : pending[name] = ""})

\* Mutant of ContinueState: the Continue button is enabled whatever remains.
ContinueState_AlwaysNormal(remaining) == "normal"

\* update_status: the Continue button is enabled only with nothing remaining.
ContinueState(remaining) ==
    IF remaining = 0 THEN "normal" ELSE "disabled"

\* on_continue: mappings[dr_name] = gp_name for every pending name that is set
WithPending(mappings, pending) ==
    [name \in DOMAIN mappings \cup {n \in DOMAIN pending : pending[n] # ""} |->
        IF name \in DOMAIN pending /\ pending[name] # "" THEN pending[name]
        ELSE mappings[name]]

InitGui ==
    /\ Idle
    /\ call \in {[fn |-> "_on_dr_step1_clicked", ready |-> r] : r \in BOOLEAN}
    /\ ret = NoCall

Handling(position) ==
    /\ call.fn = "_on_dr_step1_clicked"
    /\ ret # NoCall
    /\ ret.pc = position

\* Steps 1 to 3 of the handler: without a drive, statement dates or provider
\* paths it warns and returns.
Clicked ==
    /\ call.fn = "_on_dr_step1_clicked"
    /\ ret = NoCall
    /\ ret' = [fn |-> call.fn,
               pc |-> IF call.ready THEN "get_unmapped" ELSE "returned",
               unmapped |-> {}, checked |-> FALSE,
               mappings |-> <<>>, pending |-> <<>>,
               continue_btn |-> "disabled", completed |-> FALSE,
               closed_by |-> "", result |-> FALSE,
               saved |-> FALSE, saved_mappings |-> <<>>,
               thread_started |-> FALSE]
    /\ UNCHANGED <<run_vars, call>>

\* unmapped = get_unmapped_mfcs(csv_folder, stmt_start, stmt_end_sunday, mfc_mapping)
GetUnmappedMfcs ==
    /\ Handling("get_unmapped")
    /\ \E unmapped \in SUBSET MfcNames :
           ret' = [ret EXCEPT !.unmapped = unmapped, !.checked = TRUE, !.pc = "while"]
    /\ UNCHANGED <<run_vars, call>>

\* while unmapped: show_unmapped_mfc_dialog builds the dialog (Continue
\* disabled), fills the table and waits for it to close.
ShowUnmappedMfcDialog ==
    /\ Handling("while")
    /\ ret.unmapped # {}
    /\ \E mappings \in MfcMappings :
           ret' = [ret EXCEPT !.pc = "wait_window",
                              !.mappings = mappings,
                              !.pending = PendingOf(ret.unmapped),
                              !.continue_btn = ContinueState(Remaining(PendingOf(ret.unmapped))),
                              !.completed = FALSE,
                              !.closed_by = "",
                              !.result = FALSE,
                              !.saved = FALSE,
                              !.saved_mappings = <<>>]
    /\ UNCHANGED <<run_vars, call>>

\* on_set_name / do_save on the selected row: an empty GoPuff name is refused
\* with a warning, another one is stored and the table refreshed.
OnSetName ==
    /\ Handling("wait_window")
    /\ \E dr_name \in DOMAIN ret.pending, gp_name \in GopuffNames \cup {""} :
           LET pending == IF gp_name = "" THEN ret.pending
                          ELSE [ret.pending EXCEPT ![dr_name] = gp_name]
           IN  ret' = [ret EXCEPT !.pending = pending,
                                  !.continue_btn = ContinueState(Remaining(pending))]
    /\ UNCHANGED <<run_vars, call>>

\* on_continue, reached through the Continue button when it is enabled: the
\* mappings are saved; on success the dialog is completed and destroyed, on
\* failure an error is shown and the dialog stays.
OnContinue ==
    /\ Handling("wait_window")
    /\ ret.continue_btn = "normal"
    /\ \E save_mfc_mapping \in BOOLEAN :
           LET mappings == WithPending(ret.mappings, ret.pending) IN
           ret' = IF save_mfc_mapping
                  THEN [ret EXCEPT !.mappings = mappings,
                                   !.saved = TRUE,
                                   !.saved_mappings = mappings,
                                   !.completed = TRUE,
                                   !.closed_by = "continue",
                                   !.pc = "closed"]
                  ELSE [ret EXCEPT !.mappings = mappings]
    /\ UNCHANGED <<run_vars, call>>

\* on_cancel: set_completed(False), destroy
OnCancel ==
    /\ Handling("wait_window")
    /\ ret' = [ret EXCEPT !.completed = FALSE, !.closed_by = "cancel", !.pc = "closed"]
    /\ UNCHANGED <<run_vars, call>>

\* the window is closed by the window manager: no handler of the controller runs
CloseWindow ==
    /\ Handling("wait_window")
    /\ ret' = [ret EXCEPT !.closed_by = "close", !.pc = "closed"]
    /\ UNCHANGED <<run_vars, call>>

\* wait_for_close returns result["completed"]; the handler returns on False and
\* reloads the mappings and checks again on True.
WaitForClose ==
    /\ Handling("closed")
    /\ ret' = [ret EXCEPT !.result = ret.completed,
                          !.pc = IF ret.completed THEN "get_unmapped" ELSE "returned"]
    /\ UNCHANGED <<run_vars, call>>

\* the loop is left with unmapped empty: thread.start()
StartThread ==
    /\ Handling("while")
    /\ ret.unmapped = {}
    /\ ret' = [ret EXCEPT !.thread_started = TRUE, !.pc = "returned"]
    /\ UNCHANGED <<run_vars, call>>

NextGui ==
    \/ Clicked
    \/ GetUnmappedMfcs
    \/ ShowUnmappedMfcDialog
    \/ OnSetName
    \/ OnContinue
    \/ OnCancel
    \/ CloseWindow
    \/ WaitForClose
    \/ StartThread

SpecGui == InitGui /\ [][NextGui]_vars

\* =================================================================== claims
Started == pc \in {"resolve", "done"}

Resolved == iter # NoIteration

Matched(num) == match_results[num].matched

\* The DWH rows a lookup under `key` can return that are not claimed in `used`,
\* read from dwh_df itself.
Unclaimed(key, used) ==
    {k \in DOMAIN dwh_df :
        /\ dwh_df[k].order_completed = 1
        /\ <<dwh_df[k].mp_order_id, dwh_df[k].location_name, dwh_df[k].created_at_day>> = key
        /\ dwh_df[k].gp_order_id \notin used}

\* C1 - Uniqueness: no gp_order_id is the matched reference of more than one
\* match outcome: two matched entries of match_results never hold the same
\* gp_order_id, and the record an iteration matches was not claimed before it.
C1_Uniqueness ==
    /\ \A a, b \in DOMAIN match_results :
          (a # b /\ Matched(a) /\ Matched(b))
              => match_results[a].gp_order_id # match_results[b].gp_order_id
    /\ (Resolved /\ iter.matched_candidate # NoCandidate)
          => iter.matched_candidate.gp_order_id \notin iter.used_before

\* C1 witness: two orders with the same key are both matched, the second after
\* the record claimed by the first was taken out of its candidates.
C1_Witness ==
    /\ pc = "done"
    /\ \E a, b \in DOMAIN match_results : a # b /\ Matched(a) /\ Matched(b)
    /\ iter.matched_candidate # NoCandidate
    /\ Len(iter.same_date) < Len(LookupGet(dwh_lookup, iter.key))

\* The timestamp a resolved order was resolved with.
TsOf(agg_row) == OrderTimestamp(dr_df, agg_row.order_number)

\* C3 (as claimed) - the aggregated orders are resolved in ascending order of
\* their timestamp: no order is resolved before an order with an earlier
\* timestamp.
C3_TimestampOrder ==
    Started =>
        \A k, l \in DOMAIN agg_df_sorted :
            k < l => ~(TsOf(agg_df_sorted[l]) < TsOf(agg_df_sorted[k]))

\* The unclaimed records under the own-date key and under the previous-day key
\* of the order of the last iteration, and its entry of match_results.
OwnDate == Unclaimed(iter.key, iter.used_before)

PrevDay == Unclaimed(<<iter.key[1], iter.key[2], iter.key[3] - 1>>, iter.used_before)

Info == match_results[iter.order_num]

\* C4 - Cross-window fallback: the previous-day key is consulted if and only if
\* no unclaimed candidate remains under the own-date key; when it is consulted
\* and holds exactly one unclaimed candidate, the order is
\* MATCHED_CROSS_MIDNIGHT with cross_midnight set and that candidate assigned.
C4_CrossWindow ==
    Resolved =>
        /\ iter.prev_consulted <=> OwnDate = {}
        /\ (iter.prev_consulted /\ Cardinality(PrevDay) = 1) =>
              /\ Info.match_status = "MATCHED_CROSS_MIDNIGHT"
              /\ Info.cross_midnight
              /\ Info.matched
              /\ Info.dwh_idx \in PrevDay

\* C4 witness: an order with nothing left on its date and one record on the
\* previous day is matched across midnight.
C4_Witness ==
    /\ Resolved
    /\ OwnDate = {}
    /\ Cardinality(PrevDay) = 1
    /\ iter.prev_consulted
    /\ Info.match_status = "MATCHED_CROSS_MIDNIGHT"

\* C5 - Cardinality branch, after the claimed records are excluded: no candidate
\* on either date gives NO_DWH_RECORD; exactly one on the own date gives MATCHED
\* with confidence High and that candidate; two or more go to timestamp
\* resolution and never end MATCHED or MATCHED_CROSS_MIDNIGHT.
C5_Cardinality ==
    Resolved =>
        /\ (OwnDate = {} /\ PrevDay = {}) =>
              /\ Info.match_status = "NO_DWH_RECORD"
              /\ ~Info.matched
              /\ Info.gp_order_id = NoRef
        /\ Cardinality(OwnDate) = 1 =>
              /\ Info.match_status = "MATCHED"
              /\ Info.match_confidence = "High"
              /\ Info.dwh_idx \in OwnDate
        /\ (Cardinality(OwnDate) >= 2 \/ (OwnDate = {} /\ Cardinality(PrevDay) >= 2)) =>
              /\ iter.ts_result # ""
              /\ Info.match_status \notin {"MATCHED", "MATCHED_CROSS_MIDNIGHT"}

\* C5 witness: two records under the own-date key, one claimed by an earlier
\* order: the one left is a direct match.
C5_Witness ==
    /\ Resolved
    /\ Cardinality(OwnDate) = 1
    /\ Len(LookupGet(dwh_lookup, iter.key)) = 2
    /\ Info.match_status = "MATCHED"
    /\ Info.match_confidence = "High"

\* The colliding candidates of the last iteration and those whose window
\* [created_at_ts, delivered_at_ts + 1 hour] holds the order's timestamp.
Colliding == IF OwnDate # {} THEN OwnDate ELSE PrevDay

Survivors ==
    {k \in Colliding :
        /\ dwh_df[k].created_at_ts # NaT
        /\ dwh_df[k].delivered_at_ts # NaT
        /\ dwh_df[k].created_at_ts <= iter.dr_ts
        /\ iter.dr_ts <= dwh_df[k].delivered_at_ts + 1}

\* C6 - Timestamp resolution: with two or more colliding candidates, exactly
\* one window holding the order's timestamp gives MATCHED_BY_TIMESTAMP with that
\* candidate; none or several choose nothing and value resolution runs.
C6_TimestampResolution ==
    (Resolved /\ Cardinality(Colliding) >= 2) =>
        /\ Cardinality(Survivors) = 1 =>
              /\ Info.match_status = "MATCHED_BY_TIMESTAMP"
              /\ Info.dwh_idx \in Survivors
        /\ Cardinality(Survivors) # 1 =>
              /\ Info.match_status \in {"MATCHED_BY_VALUE", "COLLISION"}
              /\ iter.val_result \in {"MATCHED_BY_VALUE", "NO_VALUE_MATCH"}

\* C6 witness: two colliding candidates, the order's timestamp inside exactly
\* one window.
C6_Witness ==
    /\ Resolved
    /\ Cardinality(Colliding) >= 2
    /\ Cardinality(Survivors) = 1
    /\ Info.match_status = "MATCHED_BY_TIMESTAMP"

\* The call of _resolve_collision_by_value that returned, its candidates'
\* differences to dr_value, and the first candidate of minimal difference.
ValueReturned == ret.fn = "_resolve_collision_by_value"

Diff(k) == Abs(call.candidates[k].dwh_value - call.dr_value)

Closest ==
    CHOOSE k \in DOMAIN call.candidates :
        /\ \A j \in DOMAIN call.candidates : Diff(k) <= Diff(j)
        /\ \A j \in 1..(k - 1) : Diff(j) > Diff(k)

\* Below 0.10, or below 1% of the candidate's value.
WithinTolerance(k) ==
    \/ Diff(k) < 10
    \/ 100 * Diff(k) < call.candidates[k].dwh_value

CandidateValuesOf(candidates) == [k \in DOMAIN candidates |-> candidates[k].dwh_value]

\* C7 - Value resolution: the candidate chosen has minimal absolute difference
\* to the order's net value and is accepted (MATCHED_BY_VALUE) if and only if
\* that difference is below 0.10 or below 1% of the candidate's value; 88.50
\* against 12.00 and 88.52 is matched by value to the 88.52 candidate.
C7_ValueResolution ==
    ValueReturned =>
        /\ ret.result = "MATCHED_BY_VALUE" <=> WithinTolerance(Closest)
        /\ ret.result = "MATCHED_BY_VALUE" =>
              /\ ret.cand = call.candidates[Closest]
              /\ \A j \in DOMAIN call.candidates :
                    Abs(ret.cand.dwh_value - call.dr_value) <= Diff(j)
        /\ ret.result # "MATCHED_BY_VALUE" =>
              /\ ret.cand = NoCandidate
              /\ ret.result = "NO_VALUE_MATCH"
        /\ (call.dr_value = 8850 /\ CandidateValuesOf(call.candidates) = <<1200, 8852>>) =>
              /\ ret.result = "MATCHED_BY_VALUE"
              /\ ret.cand = call.candidates[2]

\* C7 witness: 88.50 against 12.00 and 88.52 returned the 88.52 candidate.
C7_Witness ==
    /\ ValueReturned
    /\ call.dr_value = 8850
    /\ CandidateValuesOf(call.candidates) = <<1200, 8852>>
    /\ ret.result = "MATCHED_BY_VALUE"
    /\ ret.cand.dwh_value = 8852

\* C8 - An unresolved collision makes no assignment: an iteration in which
\* timestamp and value resolution both fail stores COLLISION with no matched
\* reference, leaves used_dwh_ids as it was and adds exactly one to the
\* collision counter (and nothing to the other counters).
C8_UnresolvedCollision ==
    [][(/\ i' = i + 1
        /\ iter'.ts_result \in {"NO_DR_TIMESTAMP", "NO_TIMESTAMP_MATCH",
                                "MULTIPLE_TIMESTAMP_MATCHES"}
        /\ iter'.val_result = "NO_VALUE_MATCH")
       => (/\ match_results'[iter'.order_num].match_status = "COLLISION"
           /\ ~match_results'[iter'.order_num].matched
           /\ match_results'[iter'.order_num].gp_order_id = NoRef
           /\ used_dwh_ids' = used_dwh_ids
           /\ stats'["collision"] = stats["collision"] + 1
           /\ \A name \in StatNames \ {"collision"} : stats'[name] = stats[name])]_vars

\* C8 witness: an iteration ended in COLLISION after both resolutions failed.
C8_Witness ==
    /\ Resolved
    /\ iter.ts_result # ""
    /\ iter.val_result = "NO_VALUE_MATCH"
    /\ Info.match_status = "COLLISION"
    /\ used_dwh_ids = iter.used_before
    /\ stats["collision"] >= 1

\* The call of aggregate_order_values that returned, and the order numbers of
\* the Order rows it was given.
AggReturned == ret.fn = "aggregate_order_values"

OrderIds ==
    {call.dr_df[k].order_number :
        k \in {x \in DOMAIN call.dr_df : call.dr_df[x].accounting_category = OrderCat}}

\* C9 (as claimed) - aggregate_order_values produces exactly one aggregated
\* order per distinct order number among the Order rows, and none for the
\* order numbers with no Order row.
C9_OnePerOrderId ==
    AggReturned =>
        /\ \A num \in OrderIds :
              Cardinality({k \in DOMAIN ret.agg_df : ret.agg_df[k].order_number = num}) = 1
        /\ \A k \in DOMAIN ret.agg_df : ret.agg_df[k].order_number \in OrderIds

\* The sum of adjustment_gross over the Additional Fees rows 1..k of df with
\* order number num.
RECURSIVE FeeTotal(_, _, _)
FeeTotal(df, num, k) ==
    IF k = 0
    THEN 0
    ELSE FeeTotal(df, num, k - 1)
         + (IF df[k].accounting_category = "Additional Fees" /\ df[k].order_number = num
            THEN df[k].adjustment_gross
            ELSE 0)

WithoutPayments(df) == SelectSeq(df, LAMBDA r : r.accounting_category # "Additional Payments")

NetValues(agg) == [k \in DOMAIN agg |-> <<agg[k].order_number, agg[k].net_sales_value>>]

\* C10 - Every aggregated order has net_sales_value = gross_order_value + the
\* sum of the adjustments of the Additional Fees rows with its order number,
\* and the net values are those of the same input without its Additional
\* Payments rows.
C10_NetValue ==
    AggReturned =>
        /\ \A k \in DOMAIN ret.agg_df :
              /\ ret.agg_df[k].net_sales_value =
                    ret.agg_df[k].gross_order_value
                    + FeeTotal(call.dr_df, ret.agg_df[k].order_number, Len(call.dr_df))
              /\ \E x \in DOMAIN call.dr_df :
                    /\ call.dr_df[x].accounting_category = OrderCat
                    /\ call.dr_df[x].order_number = ret.agg_df[k].order_number
                    /\ ret.agg_df[k].gross_order_value =
                          call.dr_df[x].order_value_gross
                          + call.dr_df[x].marketing_offer_discount
        /\ NetValues(ret.agg_df) = NetValues(AggregateOrderValues(WithoutPayments(call.dr_df)))

\* C10 witness: an order with a fee row and a payment row; only the fee is in
\* its net value.
C10_Witness ==
    /\ AggReturned
    /\ \E k \in DOMAIN ret.agg_df, f, q \in DOMAIN call.dr_df :
          /\ call.dr_df[f].accounting_category = FeeCat
          /\ call.dr_df[f].order_number = ret.agg_df[k].order_number
          /\ call.dr_df[q].accounting_category = PaymentCat
          /\ call.dr_df[q].order_number = ret.agg_df[k].order_number
          /\ ret.agg_df[k].net_sales_value =
                ret.agg_df[k].gross_order_value + call.dr_df[f].adjustment_gross

\* ------------------------------------------------------------------ C11
Final == pc = "final"

HasOrders == OrdersOf(dr_df) # <<>>

\* the rows of dr_df that are not Order rows
IsAdjustment(k) == dr_df[k].accounting_category # OrderCat

HasOrderRow(num) ==
    \E j \in DOMAIN dr_df :
        dr_df[j].accounting_category = OrderCat /\ dr_df[j].order_number = num

Standalone(k) == IsAdjustment(k) /\ ~HasOrderRow(dr_df[k].order_number)

Returned == pc \in {"done", "final"}

Labelled(row, category, status) ==
    /\ "order_category" \in DOMAIN row /\ row.order_category = category
    /\ "match_status" \in DOMAIN row /\ row.match_status = status

\* C12: when dr_df holds no Order row, aggregate_order_values(dr_df) is empty,
\* match_deliveroo_orders returns every row with order_category "No Orders" and
\* match_status "N/A" and nothing else added, no candidate is looked up or
\* claimed, and calculate_variances then runs to its end on that frame (no
\* KeyError), giving every row amount_variance 0.
C12_NoOrders ==
    ~HasOrders =>
        /\ AggregateOrderValues(dr_df) = <<>>
        /\ pc \in {"start", "done", "final"}
        /\ agg_df = <<>> /\ match_results = <<>> /\ used_dwh_ids = {}
        /\ iter = NoIteration /\ stats = NoStats
        /\ Returned =>
               /\ Len(result_rows) = Len(dr_df)
               /\ \A k \in DOMAIN result_rows :
                      /\ Labelled(result_rows[k], "No Orders", "N/A")
                      /\ "dwh_gp_order_id" \notin DOMAIN result_rows[k]
        /\ pc = "done" => ENABLED Variances
        /\ Final =>
               /\ Len(final_df) = Len(dr_df)
               /\ \A k \in DOMAIN final_df :
                      /\ Labelled(final_df[k], "No Orders", "N/A")
                      /\ final_df[k].amount_variance = 0
                      /\ final_df[k].variance_explanation = "N/A"

\* A finished run on fee and payment rows only, with completed DWH records
\* under the key of those rows.
C12_Witness ==
    /\ Final
    /\ ~HasOrders
    /\ Len(final_df) >= 2
    /\ \E d \in DOMAIN dwh_df : IsCompleted(dwh_df[d])

\* ------------------------------------------------------------------ C13
LookupBuilt == HasOrders /\ pc \in {"resolve", "done", "final"}

\* the keys of the completed records of dwh_df
CompletedKeys ==
    {<<dwh_df[d].mp_order_id, dwh_df[d].location_name, dwh_df[d].created_at_day>> :
        d \in {x \in DOMAIN dwh_df : dwh_df[x].order_completed = 1}}

HasKey(d, key) ==
    /\ dwh_df[d].mp_order_id = key[1]
    /\ dwh_df[d].location_name = key[2]
    /\ dwh_df[d].created_at_day = key[3]

\* the gp_order_ids of dwh_lookup[key], in their order
IdsUnder(key) ==
    LET cands == IF key \in DOMAIN dwh_lookup THEN dwh_lookup[key] ELSE <<>>
    IN  [j \in DOMAIN cands |-> cands[j].gp_order_id]

\* the gp_order_ids of the rows d of dwh_df satisfying P, in table order
RECURSIVE IdsWhere(_, _)
IdsWhere(P(_), n) ==
    IF n = 0 THEN <<>>
    ELSE IF P(n) THEN Append(IdsWhere(P, n - 1), dwh_df[n].gp_order_id)
    ELSE IdsWhere(P, n - 1)

HasIdentity(d) ==
    dwh_df[d].mp_order_id \notin {"", "nan"} /\ dwh_df[d].location_name # ""

NeverNonCompleted ==
    /\ \A key \in DOMAIN dwh_lookup : \A j \in DOMAIN dwh_lookup[key] :
           dwh_df[dwh_lookup[key][j].idx].order_completed = 1
    /\ \A num \in DOMAIN match_results :
           match_results[num].matched =>
               dwh_df[match_results[num].dwh_idx].order_completed = 1

\* C13 as stated: for every key, dwh_lookup[key] lists every completed record
\* of that key and no other record; a record that is not completed is never
\* assigned to an order.
C13_ReferenceIndex_AsStated ==
    LookupBuilt =>
        /\ \A key \in CompletedKeys \cup DOMAIN dwh_lookup :
               IdsUnder(key) =
                   IdsWhere(LAMBDA d : dwh_df[d].order_completed = 1 /\ HasKey(d, key),
                            Len(dwh_df))
        /\ NeverNonCompleted

\* C13, amended: for every key, dwh_lookup[key] lists, in table order and with
\* nothing merged, exactly the completed records of that key whose mp_order_id
\* and location_name are not blank; a completed record without them is in no
\* list; a record that is not completed is in no list and is never assigned
\* to an order.
C13_ReferenceIndex ==
    LookupBuilt =>
        /\ \A key \in CompletedKeys \cup DOMAIN dwh_lookup :
               IdsUnder(key) =
                   IdsWhere(LAMBDA d : /\ dwh_df[d].order_completed = 1
                                       /\ HasIdentity(d)
                                       /\ HasKey(d, key),
                            Len(dwh_df))
        /\ NeverNonCompleted

\* Two completed records under one key next to a record of that key that is
\* not completed, and an order matched.
C13_Witness ==
    /\ LookupBuilt
    /\ \E key \in DOMAIN dwh_lookup :
           /\ Len(dwh_lookup[key]) >= 2
           /\ \E d \in DOMAIN dwh_df : dwh_df[d].order_completed = 0 /\ HasKey(d, key)
    /\ \E num \in DOMAIN match_results : match_results[num].matched

\* ------------------------------------------------------------------ C14
Dependent(k) == IsAdjustment(k) /\ HasOrderRow(dr_df[k].order_number)

\* C14: a Fee or Payment row whose order id has an Order row is returned as
\* "Linked to Order" / LINKED when the outcome stored for that order is a
\* match, and as "Linked to Unmatched" with the order's match_status when it
\* is not; the resolver loop runs once per Order row and never for such a
\* row, so at most one DWH record is claimed per Order row.
C14_DependentRows ==
    /\ (iter # NoIteration =>
           \E a \in DOMAIN agg_df_sorted :
               /\ agg_df_sorted[a].order_number = iter.order_num
               /\ a <= i)
    /\ i <= Len(OrdersOf(dr_df))
    /\ Cardinality(used_dwh_ids) <= i
    /\ (HasOrders /\ Returned) =>
           /\ i = Len(OrdersOf(dr_df))
           /\ \A k \in DOMAIN dr_df :
                  Dependent(k) =>
                      LET info == match_results[dr_df[k].order_number]
                          rows == IF Final THEN final_df ELSE result_rows
                      IN  IF info.matched
                          THEN Labelled(rows[k], "Linked to Order", "LINKED")
                          ELSE Labelled(rows[k], "Linked to Unmatched", info.match_status)

\* A finished run with a fee or payment row of a matched order.
C14_Witness ==
    /\ Final
    /\ \E k \in DOMAIN dr_df :
           /\ Dependent(k)
           /\ match_results[dr_df[k].order_number].matched
           /\ final_df[k].match_status = "LINKED"

\* A finished run with a fee or payment row of an order that did not match.
C14_WitnessUnmatched ==
    /\ Final
    /\ \E k \in DOMAIN dr_df :
           /\ Dependent(k)
           /\ ~match_results[dr_df[k].order_number].matched
           /\ final_df[k].match_status \in {"NO_DWH_RECORD", "COLLISION"}

\* ------------------------------------------------------------------ C15
Linked(k) == Final /\ final_df[k].order_category = "Linked to Order"

\* the Order rows of the order a row belongs to
Parents(k) ==
    {j \in DOMAIN dr_df :
        /\ dr_df[j].accounting_category = OrderCat
        /\ dr_df[j].order_number = dr_df[k].order_number}

VarianceClasses ==
    {"Exact Match", "Rounding", "Minor Variance", "Unexplained Variance"}

VarianceReturned == ret # NoCall /\ ret.fn = "calculate_variances"

\* the matched rows of the frame returned
MatchedRows ==
    {k \in DOMAIN ret.df : ret.df[k].order_category \in {"Matched", "Matched (Grouped)"}}

\* x to the nearest whole penny (2 decimals), a half to the even penny
NearestPenny(x) ==
    CHOOSE m \in (x - SubPenny)..(x + SubPenny) :
        /\ m % SubPenny = 0
        /\ 2 * Abs(x - m) <= SubPenny
        /\ (2 * Abs(x - m) = SubPenny => (m \div SubPenny) % 2 = 0)

\* the class the thresholds 0.02, 0.10 and 1.00 give to a variance
ClassOf(variance) ==
    IF Abs(variance) < 2 * SubPenny THEN "Exact Match"
    ELSE IF Abs(variance) < 10 * SubPenny THEN "Rounding"
    ELSE IF Abs(variance) < 100 * SubPenny THEN "Minor Variance"
    ELSE "Unexplained Variance"

\* C16 as stated: on every matched row the variance is net_value minus
\* reference value, rounded to 2 decimals, and the class is the one its
\* absolute value has among < 0.02, < 0.10, < 1.00 and >= 1.00.
C16_Classification_AsStated ==
    VarianceReturned =>
        \A k \in MatchedRows :
            LET row == ret.df[k] IN
            /\ row.amount_variance =
                   NearestPenny(row.net_sales_value - row.dwh_post_promo_sales_inc_vat)
            /\ row.variance_explanation = ClassOf(row.amount_variance)

\* C16, amended: on every matched row the variance is the difference of
\* net_value and reference value each rounded to 2 decimals first (the
\* difference of two whole-penny amounts, rounded again), and the row has
\* exactly the class its absolute value has among < 0.02 (Exact Match),
\* < 0.10 (Rounding), < 1.00 (Minor Variance) and >= 1.00 (Unexplained
\* Variance); 100.00 against 100.03 is Rounding.
C16_Classification ==
    VarianceReturned =>
        \A k \in MatchedRows :
            LET row == ret.df[k] IN
            /\ row.amount_variance =
                   NearestPenny(NearestPenny(row.net_sales_value)
                                - NearestPenny(row.dwh_post_promo_sales_inc_vat))
            /\ row.variance_explanation = ClassOf(row.amount_variance)
            /\ (/\ row.net_sales_value = 10000 * SubPenny
                /\ row.dwh_post_promo_sales_inc_vat = 10003 * SubPenny)
                   => row.variance_explanation = "Rounding"

\* One frame with 100.00 against 100.03 (Rounding) and 100.01 against 100.026,
\* where the DWH value is rounded to 100.03 before the difference is taken.
C16_Witness ==
    /\ VarianceReturned
    /\ \E k \in MatchedRows :
           /\ ret.df[k].net_sales_value = 10000 * SubPenny
           /\ ret.df[k].dwh_post_promo_sales_inc_vat = 10003 * SubPenny
           /\ ret.df[k].amount_variance = -3 * SubPenny
           /\ ret.df[k].variance_explanation = "Rounding"
    /\ \E k \in MatchedRows :
           /\ ret.df[k].net_sales_value = 10001 * SubPenny
           /\ ret.df[k].dwh_post_promo_sales_inc_vat = 10002 * SubPenny + 6
           /\ ret.df[k].amount_variance = -2 * SubPenny
           /\ ret.df[k].variance_explanation = "Rounding"

\* ------------------------------------------------------------------ C17
Severity(class) ==
    CASE class = "Exact Match" -> 1
      [] class = "Rounding" -> 2
      [] class = "Minor Variance" -> 3
      [] class = "Unexplained Variance" -> 4
      [] OTHER -> 0

\* C17: of two matched rows, the one with the larger absolute variance has a
\* class at least as severe, in Exact Match < Rounding < Minor Variance <
\* Unexplained Variance.
C17_Monotonic ==
    VarianceReturned =>
        \A k1, k2 \in MatchedRows :
            Abs(ret.df[k1].amount_variance) <= Abs(ret.df[k2].amount_variance)
                => /\ Severity(ret.df[k1].variance_explanation) >= 1
                   /\ Severity(ret.df[k1].variance_explanation)
                          <= Severity(ret.df[k2].variance_explanation)

\* Two matched rows of different variance and different class, the larger
\* variance of 2.50 and more.
C17_Witness ==
    /\ VarianceReturned
    /\ \E k1, k2 \in MatchedRows :
           /\ Abs(ret.df[k1].amount_variance) < Abs(ret.df[k2].amount_variance)
           /\ Abs(ret.df[k2].amount_variance) >= 250 * SubPenny
           /\ ret.df[k1].variance_explanation = "Minor Variance"
           /\ ret.df[k2].variance_explanation = "Unexplained Variance"

\* ------------------------------------------------------------------ C18
Confidences ==
    {"High", "High (Cross-Midnight)", "Medium (Timestamp)", "Low (Value)",
     "N/A", "Ambiguous", "Inherited", "Unknown"}

\* the confidence of a returned row ends in the review suffix
Reviewed(row) ==
    \E c \in Confidences : row.match_confidence = c \o " - Review"

MatchedOrderRow(k) ==
    /\ dr_df[k].accounting_category = OrderCat
    /\ result_rows[k].order_category \in {"Matched", "Matched (Grouped)"}

\* C18: a returned row has the review suffix exactly when it is a matched
\* order row whose |net_sales_value - DWH value| exceeds 20% of the DWH value.
C18_ReviewFlag ==
    (HasOrders /\ Returned) =>
        \A k \in DOMAIN result_rows :
            Reviewed(result_rows[k]) <=>
                /\ MatchedOrderRow(k)
                /\ 100 * Abs(result_rows[k].net_sales_value
                             - result_rows[k].dwh_post_promo_sales_inc_vat)
                       > 20 * result_rows[k].dwh_post_promo_sales_inc_vat

\* ------------------------------------------------------------------ C19
\* status and confidence of the outcomes, as the claim pairs them
StagePairs ==
    {<<"MATCHED", "High">>,
     <<"MATCHED_CROSS_MIDNIGHT", "High (Cross-Midnight)">>,
     <<"MATCHED_BY_TIMESTAMP", "Medium (Timestamp)">>,
     <<"MATCHED_BY_VALUE", "Low (Value)">>,
     <<"NO_DWH_RECORD", "N/A">>,
     <<"COLLISION", "Ambiguous">>}

\* C19: every outcome stored by the resolver loop, and the one of the
\* iteration just made, has one of the six statuses with the confidence of
\* that status (MATCHED High, MATCHED_CROSS_MIDNIGHT High (Cross-Midnight),
\* MATCHED_BY_TIMESTAMP Medium (Timestamp), MATCHED_BY_VALUE Low (Value),
\* NO_DWH_RECORD N/A, COLLISION Ambiguous), never "Unknown"; an order row is
\* returned with that confidence, with or without the review suffix.
C19_ConfidenceOfStage ==
    /\ \A num \in DOMAIN match_results :
           <<match_results[num].match_status, match_results[num].match_confidence>>
               \in StagePairs
    /\ (iter # NoIteration =>
           <<iter.match_status, iter.match_confidence>> \in StagePairs)
    /\ (HasOrders /\ Returned) =>
           \A k \in DOMAIN result_rows :
               dr_df[k].accounting_category = OrderCat =>
                   \E pair \in StagePairs :
                       /\ result_rows[k].match_status = pair[1]
                       /\ result_rows[k].match_confidence
                              \in {pair[2], pair[2] \o " - Review"}

\* A run where one order was matched by value and another outcome has
\* another status.
C19_Witness ==
    /\ Returned
    /\ \E n1, n2 \in DOMAIN match_results :
           /\ match_results[n1].match_status = "MATCHED_BY_VALUE"
           /\ match_results[n1].match_confidence = "Low (Value)"
           /\ match_results[n2].match_status # "MATCHED_BY_VALUE"

\* ------------------------------------------------------------------ C20
\* the sum of f(k) over the rows 1..n that satisfy P
RECURSIVE SumWhere(_, _, _)
SumWhere(P(_), f(_), n) ==
    IF n = 0 THEN 0
    ELSE (IF P(n) THEN f(n) ELSE 0) + SumWhere(P, f, n - 1)

\* what a raw row adds to the net value of the statement: an Order row its
\* gross value and marketing discount, a Fee row its adjustment, a Payment
\* row nothing
RawValue(k) ==
    IF dr_df[k].accounting_category = OrderCat
    THEN dr_df[k].order_value_gross + dr_df[k].marketing_offer_discount
    ELSE IF dr_df[k].accounting_category = FeeCat THEN dr_df[k].adjustment_gross
    ELSE 0

OutNet(k) == result_rows[k].net_sales_value

Conserved(k) ==
    result_rows[k].order_category \in
        {"Standalone Adjustment", "Linked to Order", "Matched", "Matched (Grouped)"}

UniqueOrderIds ==
    \A j, k \in DOMAIN dr_df :
        (/\ dr_df[j].accounting_category = OrderCat
         /\ dr_df[k].accounting_category = OrderCat
         /\ dr_df[j].order_number = dr_df[k].order_number) => j = k

C21_NoMutation ==
    [][/\ dr_df' = dr_df
       /\ dwh_df' = dwh_df
       /\ (pc = "done" => result_rows' = result_rows)]_vars

\* ------------------------------------------------------------------ C22
\* the columns of a loaded Deliveroo row
InputColumns ==
    DOMAIN DrRow("", "", "", 0, 0, 0, 0)

Restrict(row, columns) ==
    [c \in columns |-> row[c]]

\* C22: the frame match_deliveroo_orders returns has one row per row of dr_df,
\* in the order of dr_df: row k carries the input columns of dr_df row k
\* unchanged, with an order_category and a match_status added.
C22_AnnotatedOnce ==
    Returned =>
        /\ Len(result_rows) = Len(dr_df)
        /\ \A k \in DOMAIN dr_df :
               /\ Restrict(result_rows[k], InputColumns) = Restrict(dr_df[k], InputColumns)
               /\ {"order_category", "match_status"} \subseteq DOMAIN result_rows[k]

\* A returned frame of a matched order, a row linked to it and a standalone
\* row.
C22_Witness ==
    /\ HasOrders /\ Returned
    /\ \E k1, k2, k3 \in DOMAIN dr_df :
           /\ result_rows[k1].order_category \in {"Matched", "Matched (Grouped)"}
           /\ result_rows[k2].order_category = "Linked to Order"
           /\ result_rows[k3].order_category = "Standalone Adjustment"

\* ------------------------------------------------------------------ C24
\* the unclaimed records under the key of the day after the order's date
NextDay == Unclaimed(<<iter.key[1], iter.key[2], iter.key[3] + 1>>, iter.used_before)

\* C24: the previous day, the same day and the following day are all candidate
\* dates: an order ends with no DWH record only when no unclaimed completed
\* record with its last-4 id and location lies on any of the three days.
C24_DateTolerance ==
    Resolved =>
        (Info.match_status = "NO_DWH_RECORD" =>
            OwnDate = {} /\ PrevDay = {} /\ NextDay = {})

\* ------------------------------------------------------------------ C25
\* the completed records the lookup holds under the own-date key of the order
\* of the last iteration, claimed or not
HeldOwnDate == LookupGet(dwh_lookup, iter.key)

\* C25, as stated: an order that ends MATCHED has exactly one completed record
\* in the lookup under its own-date key.
C25_SingleCandidate_AsStated ==
    (Resolved /\ Info.match_status = "MATCHED") => Len(HeldOwnDate) = 1

\* C25, amended: an order that ends MATCHED (confidence High) has exactly one
\* completed record under its own-date key that no earlier order has claimed,
\* and is assigned that record; the lookup may hold further records under the
\* key, each of them claimed earlier in the run.
C25_SingleCandidate ==
    (Resolved /\ Info.match_status = "MATCHED") =>
        /\ Info.match_confidence = "High"
        /\ Cardinality(OwnDate) = 1
        /\ Info.dwh_idx \in OwnDate
        /\ ~Info.cross_midnight
        /\ \A n \in DOMAIN HeldOwnDate :
               HeldOwnDate[n].idx \notin OwnDate =>
                   HeldOwnDate[n].gp_order_id \in iter.used_before

\* An order matched directly to the one record left of the two its key holds,
\* the other claimed by an earlier order of the same key.
C25_Witness ==
    /\ Resolved
    /\ Info.match_status = "MATCHED"
    /\ Len(HeldOwnDate) = 2
    /\ \E n \in DOMAIN HeldOwnDate : HeldOwnDate[n].gp_order_id \in iter.used_before
    /\ \E num \in DOMAIN match_results :
           /\ num # iter.order_num
           /\ match_results[num].matched
           /\ match_results[num].gp_order_id \in iter.used_before

\* ------------------------------------------------------------------ C27
\* the reference ids of the matched outcomes stored so far
ReportedIds ==
    {match_results[num].gp_order_id :
        num \in {n \in DOMAIN match_results : match_results[n].matched}}

\* C27: after every iteration of the resolver loop the set of claimed
\* reference ids is the set of reference ids of the matched outcomes stored in
\* match_results.
C27_ClaimedIffReported ==
    Started => used_dwh_ids = ReportedIds

\* ------------------------------------------------------------------ C28
\* the order of the last iteration and the DWH record assigned to it
LastOrder == agg_df_sorted[i]

AssignedRecord == dwh_df[iter.matched_candidate.idx]

Assigned == Resolved /\ iter.matched_candidate # NoCandidate

\* C28: a record assigned to an order, at whichever stage, has the order's
\* last-4 id and location and is dated the order's delivery date or the day
\* before it; the outcome's cross_midnight flag is set exactly when the
\* record is dated the day before.
C28_KeyAgreement ==
    Assigned =>
        /\ AssignedRecord.mp_order_id = LastOrder.order_last4
        /\ AssignedRecord.location_name = LastOrder.mfc_name
        /\ AssignedRecord.created_at_day
               \in {LastOrder.delivery_date, LastOrder.delivery_date - 1}
        /\ Info.cross_midnight
               <=> AssignedRecord.created_at_day = LastOrder.delivery_date - 1
        /\ Info.gp_order_id = AssignedRecord.gp_order_id

\* A collision among records of the previous day resolved at a later stage:
\* the record assigned is dated the day before and the flag is set.
C28_Witness ==
    /\ Assigned
    /\ Info.match_status \in {"MATCHED_BY_TIMESTAMP", "MATCHED_BY_VALUE"}
    /\ AssignedRecord.created_at_day = LastOrder.delivery_date - 1
    /\ Info.cross_midnight

\* ------------------------------------------------------------------ C29
MatchedCounters ==
    {"matched_direct", "matched_cross_midnight", "matched_by_timestamp", "matched_by_value"}

OutcomeCounters == MatchedCounters \cup {"no_dwh_record", "collision"}

RECURSIVE SumOver(_, _)
SumOver(st, names) ==
    IF names = {} THEN 0
    ELSE LET n == CHOOSE x \in names : TRUE
         IN  st[n] + SumOver(st, names \ {n})

\* C29: every iteration of the resolver loop adds one to exactly one of the six
\* outcome counters and leaves the other five as they were; after it the six
\* counters add up to the number of aggregated orders processed and the four
\* matched counters add up to the number of claimed DWH records.
C29_CountersPartition ==
    [][i' # i =>
          /\ \E name \in OutcomeCounters :
                 /\ stats'[name] = stats[name] + 1
                 /\ \A other \in OutcomeCounters \ {name} : stats'[other] = stats[other]
          /\ SumOver(stats', OutcomeCounters) = i'
          /\ SumOver(stats', MatchedCounters) = Cardinality(used_dwh_ids')]_vars

\* The loop has ended over two orders: one matched at a stage after the
\* direct match, the record claimed; one left without a record or unresolved.
C29_Witness ==
    /\ pc = "resolve"
    /\ i = Len(agg_df_sorted)
    /\ i = 2
    /\ stats["matched_direct"] = 0
    /\ SumOver(stats, MatchedCounters) = 1
    /\ Cardinality(used_dwh_ids) = 1
    /\ stats["no_dwh_record"] + stats["collision"] = 1

\* ------------------------------------------------------------------ C30
\* the candidates of minimal difference to dr_value, in the call that returned
ClosestSet ==
    {k \in DOMAIN call.candidates :
        \A j \in DOMAIN call.candidates : Diff(k) <= Diff(j)}

Tied == Cardinality(ClosestSet) >= 2

\* C30: when two or more candidates are equally close to dr_value, the one
\* selected is the first of them in the candidate list: it is the candidate
\* returned when the match is accepted, acceptance is decided on it alone, and
\* no equally close candidate later in the list is ever returned.
C30_ValueTieBreak ==
    (ValueReturned /\ Tied) =>
        LET first == CHOOSE k \in ClosestSet : \A j \in ClosestSet : k <= j IN
        /\ ret.result = "MATCHED_BY_VALUE" <=> WithinTolerance(first)
        /\ ret.result = "MATCHED_BY_VALUE" => ret.cand = call.candidates[first]
        /\ \A k \in ClosestSet \ {first} : ret.cand # call.candidates[k]

\* 10.00 against 10.10 and 9.90, equally close and of different values: the
\* first in the list, 10.10, was returned.
C30_Witness ==
    /\ ValueReturned
    /\ Tied
    /\ call.dr_value = 1000
    /\ CandidateValuesOf(call.candidates) = <<1010, 990>>
    /\ ret.result = "MATCHED_BY_VALUE"
    /\ ret.cand = call.candidates[1]

\* ------------------------------------------------------------------ C23
RunStarted == call.fn = "run_dr_reconciliation" /\ ret # NoCall

RunReturned == RunStarted /\ ret.step = "returned"

InputAbsent == call.dwh_files # "ok" \/ call.dr_file = "none"

Step1Started == call.fn = "_on_dr_step1_clicked" /\ ret # NoCall

\* C26: the parse thread is started only when the last get_unmapped_mfcs
\* returned no name; a dialog that was cancelled or closed makes the handler
\* return with no thread started; and the dialog returns True only when every
\* name it listed has a non-empty GoPuff name and save_mfc_mapping succeeded on
\* mappings that hold them all.
C26_Step1Gating ==
    Step1Started =>
        /\ ret.thread_started =>
               /\ ret.checked
               /\ ret.unmapped = {}
               /\ ret.closed_by \notin {"cancel", "close"}
        /\ ret.closed_by \in {"cancel", "close"} =>
               /\ ~ret.thread_started
               /\ ret.pc \in {"closed", "returned"}
               /\ ~ret.result
        /\ (ret.completed \/ ret.result) =>
               /\ \A name \in DOMAIN ret.pending : ret.pending[name] # ""
               /\ ret.saved
               /\ \A name \in DOMAIN ret.pending :
                      /\ name \in DOMAIN ret.saved_mappings
                      /\ ret.saved_mappings[name] = ret.pending[name]

\* The dialog listed two names, both were set and saved, the next check found
\* nothing unmapped and the thread was started.
C26_Witness ==
    /\ Step1Started
    /\ ret.thread_started
    /\ ret.result
    /\ Cardinality(DOMAIN ret.pending) = 2
    /\ ret.closed_by = "continue"

\* A dialog closed by the window manager after a name was set: the handler
\* returned without the thread.
C26_WitnessClosed ==
    /\ Step1Started
    /\ ret.pc = "returned"
    /\ ret.closed_by = "close"
    /\ Remaining(ret.pending) = 0
    /\ ~ret.thread_started

====
